---- MODULE Spec2Model ----
(***************************************************************************)
(* A model of the WebSinu grades agent (src/main.py): the login handshake  *)
(* login_websinu, the records fetch get_grades, the snapshot diff          *)
(* compare_grades and the per-account loop of __main__.                    *)
(*                                                                         *)
(* Two specifications:                                                     *)
(*   SpecDiff  applies compare_grades to every pair of bounded record      *)
(*             sequences (the pure diff engine);                           *)
(*   Spec      runs __main__ over USER_IDENTIFIERS against a portal, a     *)
(*             notification service and a file system that answer          *)
(*             nondeterministically.                                       *)
(***************************************************************************)
EXTENDS Integers, Sequences, FiniteSets, TLC

VARIABLES
    pc,                 \* where the program is
    idx,                \* position of the for loop in USER_IDENTIFIERS (0: before it)
    global_ntfy_topic_url,          \* main.py:317
    websinu_username,               \* main.py:332
    websinu_password,               \* main.py:333
    previous_grades,    \* main.py:352 / compare_grades' old_grades
    current_grades,     \* main.py:358 / compare_grades' new_grades
    new_entries,        \* main.py:364
    changed_entries,    \* main.py:364
    websinu_session,                \* main.py:354
    login_sid,                      \* main.py:354
    initial_grades_html_content,    \* main.py:354
    session,            \* login_websinu: main.py:68
    response,           \* login_websinu: main.py:74
    intermediate_sid,   \* login_websinu: main.py:84
    intermediate_hid_self_submit,   \* login_websinu: main.py:86
    final_response,     \* login_websinu: main.py:98
    grades_response,    \* get_grades: main.py:198
    files,              \* the snapshot file previous_grades_<user>.json of each user
    umask,              \* the file mode creation mask of the process
    sessions_created,   \* how many requests.Session objects were made
    ntfy_failed,        \* some notification request has failed
    events              \* what the program did to the outside, in order

diffVars == <<previous_grades, current_grades, new_entries, changed_entries>>
mainUserVars == <<websinu_username, websinu_password>>
mainLoginVars == <<websinu_session, login_sid, initial_grades_html_content>>
loginVars ==
    <<session, response, intermediate_sid, intermediate_hid_self_submit,
      final_response>>
vars ==
    <<pc, idx, global_ntfy_topic_url, mainUserVars, diffVars, mainLoginVars,
      loginVars, grades_response, files, umask, sessions_created,
      ntfy_failed, events>>

(***************************************************************************)
(* Bounds                                                                  *)
(***************************************************************************)
\* longest previous / current record sequence handed to compare_grades in
\* SpecDiff
MaxPrev == 2
MaxCur == 3
\* longest list of <tr> elements handed to the extraction loop in SpecExtract
MaxRows == 3

(***************************************************************************)
(* Grade records: the dicts built at main.py:222-229.                      *)
(***************************************************************************)
Subjects  == {"Algebra", "Databases"}
Years     == {"1", "2"}
Semesters == {"1", "2"}
Dates     == {"2024-01-10", "2024-02-01"}
Grades    == {"7", "9"}

AllRecords ==
    [year : Years, semester : Semesters, subject : Subjects,
     type : {"E"}, date : Dates, grade : Grades]

\* The identity key as the record model defines it: (subject, year, semester).
IdentityKey(g) == <<g.subject, g.year, g.semester>>

\* The key compare_grades computes (main.py:282 and :286).
KeyOfSubjectOnly(g) == <<g.subject, "", "">>
KeyOf(g) == <<g.subject, g.year, g.semester>>

\* The records the diff is exercised on: every grade and date for the key
\* (Algebra, 1, 1), and one record for each key that differs from it in
\* exactly one component.
BaseKey == <<"Algebra", "1", "1">>
Records ==
    {r \in AllRecords :
        \/ IdentityKey(r) = BaseKey
        \/ /\ IdentityKey(r) \in {<<"Databases", "1", "1">>, <<"Algebra", "2", "1">>,
                            <<"Algebra", "1", "2">>}
           /\ r.grade = "7"
           /\ r.date = "2024-01-10"}

SeqsUpTo(S, n) == UNION {[1..k -> S] : k \in 0..n}

(***************************************************************************)
(* compare_grades (main.py:272-300)                                        *)
(***************************************************************************)
EmptyDict == [k \in {} |-> ""]

\* old_grades_map[key] = grade (main.py:283): a dict assignment overwrites.
DictSetKeepFirst(m, k, v) ==
    [x \in DOMAIN m \cup {k} |-> IF x \in DOMAIN m THEN m[x] ELSE v]
DictSet(m, k, v) ==
    [x \in DOMAIN m \cup {k} |-> IF x = k THEN v ELSE m[x]]

\* The first loop (main.py:280-283) after the first n records of old_grades.
RECURSIVE BuildOldMapReverse(_, _)
BuildOldMapReverse(old_grades, n) ==
    IF n = 0 THEN EmptyDict
    ELSE DictSet(BuildOldMapReverse(old_grades, n - 1),
                 KeyOf(old_grades[Len(old_grades) + 1 - n]),
                 old_grades[Len(old_grades) + 1 - n].grade)
RECURSIVE BuildOldMap(_, _)
BuildOldMap(old_grades, n) ==
    IF n = 0 THEN EmptyDict
    ELSE DictSet(BuildOldMap(old_grades, n - 1),
                 KeyOf(old_grades[n]), old_grades[n].grade)

OldGradesMap(old_grades) == BuildOldMap(old_grades, Len(old_grades))

\* The entry appended at main.py:291-298.
ChangeEntry(old_grade, new_grade) ==
    [old_grade |-> old_grade, new_grade |-> new_grade.grade,
     subject |-> new_grade.subject, year |-> new_grade.year,
     semester |-> new_grade.semester, date |-> new_grade.date]

\* One iteration of the second loop (main.py:286-298); acc is the pair
\* <<new_grade_entries, changed_grade_entries>>.
CompareStepPrepend(old_grades_map, acc, new_grade) ==
    LET key == KeyOf(new_grade) IN
    IF key \notin DOMAIN old_grades_map
    THEN <<(<<new_grade>> \o acc[1]), acc[2]>>
    ELSE IF old_grades_map[key] # new_grade.grade
    THEN <<acc[1], <<ChangeEntry(old_grades_map[key], new_grade)>> \o acc[2]>>
    ELSE acc
CompareStepSwapGrades(old_grades_map, acc, new_grade) ==
    LET key == KeyOf(new_grade) IN
    IF key \notin DOMAIN old_grades_map
    THEN <<Append(acc[1], new_grade), acc[2]>>
    ELSE IF old_grades_map[key] # new_grade.grade
    THEN <<acc[1],
           Append(acc[2],
                  [ChangeEntry(old_grades_map[key], new_grade)
                       EXCEPT !.old_grade = new_grade.grade,
                              !.new_grade = old_grades_map[key]])>>
    ELSE acc
CompareStep(old_grades_map, acc, new_grade) ==
    LET key == KeyOf(new_grade) IN
    IF key \notin DOMAIN old_grades_map
    THEN <<Append(acc[1], new_grade), acc[2]>>
    ELSE IF old_grades_map[key] # new_grade.grade
    THEN <<acc[1], Append(acc[2], ChangeEntry(old_grades_map[key], new_grade))>>
    ELSE acc

\* The second loop (main.py:285-298) after the first n records of new_grades.
RECURSIVE CompareLoop(_, _, _)
CompareLoop(old_grades_map, new_grades, n) ==
    IF n = 0 THEN <<(<<>>), (<<>>)>>
    ELSE CompareStep(old_grades_map,
                     CompareLoop(old_grades_map, new_grades, n - 1),
                     new_grades[n])

\* compare_grades returns (new_grade_entries, changed_grade_entries).
compare_gradesReportRemoved(old_grades, new_grades) ==
    LET r == CompareLoop(OldGradesMap(old_grades), new_grades, Len(new_grades))
        gone(g) == \A i \in 1..Len(new_grades) : KeyOf(new_grades[i]) # KeyOf(g)
    IN  <<r[1] \o SelectSeq(old_grades, gone), r[2]>>
compare_grades(old_grades, new_grades) ==
    CompareLoop(OldGradesMap(old_grades), new_grades, Len(new_grades))

(***************************************************************************)
(* Values of the program                                                   *)
(***************************************************************************)
NoneStr == "<None>"             \* Python's None where a str is expected
NoneObj == [kind |-> "None"]    \* Python's None where an object is expected

\* bool(x) as Python's "if x" / "not x" sees a str-or-None, an object-or-None
\* and a list
TruthyStrNotNone(s) == s # NoneStr
TruthyStr(s) == s # NoneStr /\ s # ""
TruthyObj(o) == o # NoneObj
TruthyListNotNone(l) == TRUE
TruthyList(l) == Len(l) > 0

USER_IDENTIFIERS == <<"STUDENT_A", "STUDENT_B">>
DELAY_BETWEEN_USERS_SECONDS == 5
login_url == "https://websinu.utcluj.ro/note/default.asp"
roluri_url == "https://websinu.utcluj.ro/note/roluri.asp"
LandingTitle == "Note din sesiunea curenta"

\* The value login_websinu returns on every failing path.
NoneTriple == <<NoneObj, NoneStr, NoneObj>>

(***************************************************************************)
(* What the portal answers.  A page is described by what the program reads *)
(* from it:                                                                *)
(*   js      "document.frmData.submit()" occurs in the text                *)
(*   roluri  "roluri.asp" occurs in the text                               *)
(*   title   soup.title.string, NoTitle when there is no title             *)
(*   form    the first <form name=frmData action=roluri.asp>, with its     *)
(*           inputs named sid and hidSelfSubmit                            *)
(*   anchor  the first <a> whose href starts with                          *)
(*           "javascript: NoteSesiuneaCurenta"                             *)
(*   rows    the <tr> elements in document order                           *)
(***************************************************************************)
NoInput == "<no input>"             \* form.find('input', ...) is None
NoValue == "<no value attribute>"   \* the input has no value attribute
NoTitle == "<no title>"
Titles == {NoTitle, LandingTitle, "Autentificare"}
SidInputs == {NoInput, NoValue, "", "S1"}
HssInputs == {NoInput, NoValue, "other.asp"}

NoForm == [present |-> FALSE]
Form(sid, hss) == [present |-> TRUE, sid |-> sid, hidSelfSubmit |-> hss]
Forms == {NoForm} \cup {Form(sid, hss) : sid \in SidInputs, hss \in HssInputs}

NoAnchor == [kind |-> "none"]
\* the href starts as required but is not NoteSesiuneaCurenta('..', '..')
BadAnchor == [kind |-> "nomatch"]
CallAnchor(f, s) == [kind |-> "call", faculty |-> f, specialization |-> s]
Anchors == {NoAnchor, BadAnchor, CallAnchor(" Automatica ", "Calculatoare")}

\* str.strip() and get_text(strip=True), on the texts the pages carry
StripText(s) ==
    CASE s = " Automatica " -> "Automatica"
      [] s = " 9 " -> "9"
      [] OTHER -> s

\* .replace('\xa0', ' ').replace(' ', ' ').strip() of main.py:217;
\* "<nbsp>" stands for the character U+00A0
SubjectText(s) ==
    CASE s = "Baze<nbsp>de date" -> "Baze de date"
      [] OTHER -> StripText(s)

Page(js, roluri, title, form, anchor, rows) ==
    [js |-> js, roluri |-> roluri, title |-> title, form |-> form,
     anchor |-> anchor, rows |-> rows]

\* A page that holds the form holds the text of its action, "roluri.asp".
PossiblePage(p) == p.form.present => p.roluri

\* Answers to the login POST: every combination of what login_websinu reads;
\* the anchor is varied on the pages that can become the landing page (the
\* landing title, no redirect), the hidSelfSubmit input on the pages that
\* carry the redirect script.
LoginPages ==
    {p \in {Page(js, ro, t, f, a, <<>>) :
                js \in BOOLEAN, ro \in BOOLEAN, t \in Titles, f \in Forms,
                a \in Anchors} :
        /\ PossiblePage(p)
        /\ (p.anchor # NoAnchor => p.title = LandingTitle /\ ~(p.js /\ p.roluri))
        /\ (p.form.present /\ p.form.hidSelfSubmit # NoInput => p.js)}

\* Answers to the intermediate POST: the landing page, which carries the
\* frmData form with a sid of its own, or another page.
RoluriPages ==
    {p \in {Page(FALSE, f.present, t, f, a, <<>>) :
                t \in Titles, f \in {NoForm, Form("S2", NoInput)},
                a \in Anchors} :
        /\ p.anchor # NoAnchor => p.title = LandingTitle
        /\ p.form.present <=> p.title = LandingTitle}

\* A <tr>: the texts of its direct <td> children, and whether its nearest
\* enclosing <table> has the class "table".
Row(cells, marked) == [cells |-> cells, marked |-> marked]
RowOf(r) ==
    Row(<<r.year, r.semester, r.subject, r.type, r.date, r.grade>>, TRUE)
Algebra9 ==
    [year |-> "1", semester |-> "1", subject |-> "Algebra", type |-> "E",
     date |-> "2024-02-01", grade |-> "9"]
Algebra7 ==
    [year |-> "1", semester |-> "1", subject |-> "Algebra", type |-> "E",
     date |-> "2024-01-10", grade |-> "7"]
Databases7 ==
    [year |-> "1", semester |-> "1", subject |-> "Databases", type |-> "E",
     date |-> "2024-01-10", grade |-> "7"]
HeaderRow == Row(<<"An", "Sem", "Disciplina", "Tip", "Data", "Nota">>, FALSE)
ShortRow == Row(<<"1", "1", "Algebra", "E", "9">>, TRUE)

\* Answers to the records POST.
GradesRows ==
    { <<>>,
      <<HeaderRow, ShortRow>>,
      <<HeaderRow, RowOf(Algebra7)>>,
      <<HeaderRow, RowOf(Algebra9), RowOf(Databases7)>>,
      <<Row(<<"1", "1", "Baze<nbsp>de date", "E", "2024-02-01", " 9 ">>, TRUE)>> }
GradesPages ==
    {Page(FALSE, FALSE, LandingTitle, NoForm, NoAnchor, rows) : rows \in GradesRows}

\* An HTTP exchange: ok is FALSE when requests raises (no connection, or
\* raise_for_status on a 4xx/5xx answer).
Failed == [ok |-> FALSE, page |-> NoneObj]
Answers(pages) == {Failed} \cup {[ok |-> TRUE, page |-> p] : p \in pages}

(***************************************************************************)
(* The snapshot files                                                      *)
(***************************************************************************)
Missing == [kind |-> "missing"]          \* os.path.exists is False
Corrupt == [kind |-> "corrupt"]          \* json.load raises JSONDecodeError
\* A file the process may write but not read (mode 0200): open(..., 'r')
\* raises PermissionError, open(..., 'w') truncates it and leaves its mode.
Unreadable(f) == [kind |-> "unreadable", holds |-> f]
Json(grades) == [kind |-> "json", grades |-> grades]
\* A file holds what save_current_grades wrote in an earlier run, or is
\* damaged.
InitialFiles ==
    {Missing, Corrupt, Unreadable(Json(<<Algebra7>>)), Json(<<Algebra7>>)}
SaveOutcomes == {"saved", "open failed", "write failed"}
\* The process never calls os.umask: the mask it is started with decides the
\* mode 0666 & ~umask of every file that open(..., 'w') creates (0644: the
\* process may read it back; 0266: it may not).
Umasks == {"0022", "0400"}

(***************************************************************************)
(* Events: the program's requests, notifications, log lines, sleeps and    *)
(* file accesses, each tagged with the loop position that made it.  events *)
(* holds all of them for the loop iteration in progress (and for what      *)
(* follows the last one); of the iterations before it, it holds when each  *)
(* account was taken up, each pause and each save that succeeded.          *)
(***************************************************************************)
Log(level, msg) == [e |-> "log", level |-> level, msg |-> msg, acct |-> idx]

\* session.post(url, data=data); ok: no exception up to raise_for_status
Post(url, s, data, ok) ==
    [e |-> "post", url |-> url, session |-> s.id, data |-> data, ok |-> ok,
     acct |-> idx]

\* How a request of main.py:40-41 ends, each request on its own: a 2xx answer, a
\* RequestException (no connection, or raise_for_status on a 4xx/5xx
\* answer), or another exception.
NtfyAnswers == {"sent", "request failed", "unexpected error"}

\* send_ntfy_notification (main.py:25-46): without a topic URL only a
\* warning is logged; otherwise one POST to the topic, then the log line of
\* its outcome; a failure is logged and swallowed.
send_ntfy_notification(url, message, title, tags, answer) ==
    IF ~TruthyStr(url)
    THEN <<Log("WARNING", "Ntfy topic URL is not configured")>>
    ELSE <<[e |-> "ntfy", url |-> url, message |-> message, title |-> title,
            tags |-> tags, acct |-> idx],
           CASE answer = "sent" ->
                    Log("INFO", "Ntfy notification sent successfully")
             [] answer = "request failed" ->
                    Log("ERROR", "Failed to send Ntfy notification")
             [] OTHER ->
                    Log("ERROR", "An unexpected error occurred while sending Ntfy notification")>>
DefaultTitle == "WebSinu Grades Update"

Msg(kind, user) == [kind |-> kind, user |-> user]

\* load_previous_grades (main.py:244-260): the grades and the log line
load_previous_gradesForgets(user) ==
    <<(<<>>), Log("INFO", "No previous grades file found")>>
load_previous_grades(user) ==
    LET f == files[user] IN
    CASE f.kind = "json" ->
            <<f.grades, Log("INFO", "Loaded previous grades")>>
      [] f.kind = "corrupt" ->
            <<(<<>>), Log("ERROR", "Error decoding JSON")>>
      [] f.kind = "unreadable" ->
            <<(<<>>), Log("ERROR", "An error occurred loading previous grades")>>
      [] OTHER ->
            <<(<<>>), Log("INFO", "No previous grades file found")>>

\* What open(..., 'w') of main.py:265 leaves of a file that did not exist
\* once content is written to it: the new file has the mode 0666 & ~umask.
Created(content) ==
    IF umask = "0022" THEN content ELSE Unreadable(content)

\* What open(..., 'w') and json.dump of main.py:265-266 leave of the file f
\* when they write content: a file that exists keeps its mode, a file that
\* does not is created.
Written(f, content) ==
    CASE f.kind = "unreadable" -> Unreadable(content)
      [] f.kind = "missing" -> Created(content)
      [] OTHER -> content

\* save_current_grades (main.py:262-270): the file afterwards and the log
\* line.  open(..., 'w') truncates, so a write that fails after it leaves a
\* file that is no JSON.
save_current_gradesMerging(user, grades, outcome) ==
    CASE outcome = "saved" ->
            <<Written(files[user],
                      Json((IF files[user].kind = "json" THEN files[user].grades
                            ELSE <<>>) \o grades)),
              Log("INFO", "Saved current grades")>>
      [] outcome = "open failed" ->
            <<files[user], Log("ERROR", "Error saving current grades")>>
      [] OTHER ->
            <<Written(files[user], Corrupt),
              Log("ERROR", "Error saving current grades")>>
save_current_grades(user, grades, outcome) ==
    CASE outcome = "saved" ->
            <<Written(files[user], Json(grades)),
              Log("INFO", "Saved current grades")>>
      [] outcome = "open failed" ->
            <<files[user], Log("ERROR", "Error saving current grades")>>
      [] OTHER ->
            <<Written(files[user], Corrupt),
              Log("ERROR", "Error saving current grades")>>

(***************************************************************************)
(* __main__ (main.py:303-403)                                              *)
(***************************************************************************)
NumUsers == Len(USER_IDENTIFIERS)
User == USER_IDENTIFIERS[idx]

\* The for loop takes the next identifier, or ends (main.py:328, :402).
NextIterationStopsAfterFailure ==
    IF idx < NumUsers /\ ~ntfy_failed
    THEN pc' = "user" /\ idx' = idx + 1
    ELSE pc' = "finish" /\ idx' = idx
NextIteration ==
    IF idx < NumUsers
    THEN pc' = "user" /\ idx' = idx + 1
    ELSE pc' = "finish" /\ idx' = idx

\* The end of the loop body (main.py:397-400): pause unless this is the
\* last identifier.
EndOfBody ==
    IF User # USER_IDENTIFIERS[NumUsers]
    THEN pc' = "pause" /\ idx' = idx
    ELSE NextIteration

NotifyOutcome(sent, answer) ==
    ntfy_failed' = (ntfy_failed \/ (sent /\ answer # "sent"))

\* main.py:317-324
Start ==
    /\ pc = "start"
    /\ \E url \in {NoneStr, "", "https://ntfy.sh/grades"}, answer \in NtfyAnswers :
        /\ global_ntfy_topic_url' = url
        /\ IF ~TruthyStr(url)
           THEN /\ events' = events \o
                     <<Log("CRITICAL", "NTFY_TOPIC_URL not found in .env")>>
                /\ pc' = "exited"
                /\ idx' = idx
                /\ NotifyOutcome(FALSE, answer)
           ELSE /\ events' = events \o
                     send_ntfy_notification(url, Msg("agent started", ""),
                         "Agent Status", <<"robot">>, answer)
                /\ NextIteration
                /\ NotifyOutcome(TRUE, answer)
    /\ UNCHANGED <<grades_response, mainUserVars, diffVars, mainLoginVars, loginVars, files, umask,
                   sessions_created>>

\* What events keeps of the iterations that are over.
Digest(evs) ==
    SelectSeq(evs, LAMBDA x :
        \/ x.e \in {"run ended", "sleep"}
        \/ x.e = "save" /\ x.outcome = "saved"
        \/ x.e = "log" /\ x.msg = "Processing grades for user")

\* main.py:329-352: the credentials are read; without them the user is
\* skipped by "continue", which also skips the pause of main.py:397-400.
CredValues == {NoneStr, "", "secret"}
BeginUser ==
    /\ pc = "user"
    /\ \E un \in CredValues, pw \in CredValues, answer \in NtfyAnswers :
        /\ websinu_username' = un
        /\ websinu_password' = pw
        /\ NotifyOutcome(TRUE, answer)
        /\ IF ~TruthyStr(un) \/ ~TruthyStr(pw)
           THEN /\ events' = Digest(events) \o
                     <<Log("INFO", "Processing grades for user"),
                       Log("ERROR", "username or password not found, skipping")>>
                     \o send_ntfy_notification(global_ntfy_topic_url,
                            Msg("credentials missing", User),
                            "WebSinu Agent Error", <<"error", "x">>, answer)
                /\ NextIteration
                /\ UNCHANGED previous_grades
           ELSE /\ events' = Digest(events) \o
                     <<Log("INFO", "Processing grades for user")>>
                     \o send_ntfy_notification(global_ntfy_topic_url,
                            Msg("started checking", User),
                            "Agent Status", <<"robot", "sync">>, answer)
                     \o <<[e |-> "load", user |-> User, acct |-> idx],
                          load_previous_grades(User)[2]>>
                /\ previous_grades' = load_previous_grades(User)[1]
                /\ pc' = "login"
                /\ idx' = idx
    /\ UNCHANGED <<grades_response, global_ntfy_topic_url, current_grades, new_entries,
                   changed_entries, mainLoginVars, loginVars, files, umask,
                   sessions_created>>

\* main.py:399-400
Pause ==
    /\ pc = "pause"
    /\ events' = events \o
         <<Log("INFO", "Pausing before next user"),
           [e |-> "sleep", seconds |-> DELAY_BETWEEN_USERS_SECONDS,
            acct |-> idx]>>
    /\ NextIteration
    /\ UNCHANGED <<grades_response, global_ntfy_topic_url, mainUserVars, diffVars,
                   mainLoginVars, loginVars, files, umask, sessions_created,
                   ntfy_failed>>

\* main.py:402-403
Finish ==
    /\ pc = "finish"
    /\ \E answer \in NtfyAnswers :
        /\ events' = events \o
             <<Log("INFO", "All user grade checks completed")>>
             \o send_ntfy_notification(global_ntfy_topic_url,
                    Msg("all checks completed", ""),
                    "Agent Batch Complete", <<"checkmark", "bell">>, answer)
        /\ NotifyOutcome(TRUE, answer)
    /\ pc' = "done"
    /\ UNCHANGED <<idx, grades_response, global_ntfy_topic_url, mainUserVars, diffVars,
                   mainLoginVars, loginVars, files, umask, sessions_created>>

(***************************************************************************)
(* login_websinu (main.py:49-144)                                          *)
(***************************************************************************)
\* What a stretch of login_websinu ends in: a return, or the second POST.
Ret(logs, value) == [next |-> "return", logs |-> logs, value |-> value]
Hop(logs, sid, hss) ==
    [next |-> "intermediate", logs |-> logs, sid |-> sid, hss |-> hss]
WithLogs(logs, out) == [out EXCEPT !.logs = logs \o @]

\* main.py:139-141 and :142-144
NetworkError ==
    Ret(<<Log("ERROR", "login: network or HTTP error")>>, NoneTriple)
UnexpectedError ==
    Ret(<<Log("ERROR", "login: unexpected error")>>, NoneTriple)

\* main.py:77
RedirectDetected(page) == page.js /\ page.roluri

\* main.py:104 and :118: soup.title and soup.title.string == "Note din ..."
TitleOkAnyTitle(page) == page.title # NoTitle
TitleOk(page) == page.title # NoTitle /\ page.title = LandingTitle

\* x['value'] if x else default (main.py:84, :86, :125), for an input that
\* has a value attribute
InputValueOr(input, default) == IF input = NoInput THEN default ELSE input

\* main.py:79-117, up to the second POST
RedirectFormNoSidCheck(page) ==
    LET form == page.form IN
    IF ~form.present
    THEN Ret(<<Log("INFO", "Could not find the intermediate form")>>, NoneTriple)
    ELSE IF form.sid = NoValue \/ form.hidSelfSubmit = NoValue
    THEN UnexpectedError
    ELSE Hop(<<Log("INFO", "Extracted intermediate SID"),
               Log("INFO", "Sending second POST request to roluri.asp")>>,
             InputValueOr(form.sid, ""),
             InputValueOr(form.hidSelfSubmit, "roluri.asp"))
RedirectForm(page) ==
    LET form == page.form IN
    IF ~form.present
    THEN Ret(<<Log("INFO", "Could not find the intermediate form")>>, NoneTriple)
    ELSE IF form.sid = NoValue \/ form.hidSelfSubmit = NoValue
    THEN UnexpectedError
    ELSE LET sid == InputValueOr(form.sid, "")
             hss == InputValueOr(form.hidSelfSubmit, "roluri.asp")
         IN  IF TruthyStr(sid)
             THEN Hop(<<Log("INFO", "Extracted intermediate SID"),
                        Log("INFO", "Sending second POST request to roluri.asp")>>,
                      sid, hss)
             ELSE Ret(<<Log("INFO", "Could not extract SID from intermediate redirect page")>>,
                      NoneTriple)

\* main.py:101-111: the answer to the second POST
TwoHopLandingTyped(s, sid, page) ==
    IF TitleOk(page)
    THEN Ret(<<Log("INFO", "Successfully completed login sequence")>>,
             <<s, sid, page>>)
    ELSE Ret(<<Log("INFO", "Login sequence completed, but title not found on final page"),
               Log("INFO", "Final Response content")>>,
             <<NoneObj, "ProtocolError", NoneObj>>)
TwoHopLanding(s, sid, page) ==
    IF TitleOk(page)
    THEN Ret(<<Log("INFO", "Successfully completed login sequence")>>,
             <<s, sid, page>>)
    ELSE Ret(<<Log("INFO", "Login sequence completed, but title not found on final page"),
               Log("INFO", "Final Response content")>>,
             NoneTriple)

\* main.py:119-134: the login answer is the landing page itself
DirectLanding(s, page) ==
    LET form == page.form IN
    IF form.present
    THEN IF form.sid = NoValue
         THEN WithLogs(<<Log("INFO", "Successfully logged into WebSinu directly")>>,
                       UnexpectedError)
         ELSE LET session_sid == InputValueOr(form.sid, NoneStr) IN
              IF TruthyStr(session_sid)
              THEN Ret(<<Log("INFO", "Successfully logged into WebSinu directly"),
                         Log("INFO", "Extracted SID from directly landed page")>>,
                       <<s, session_sid, page>>)
              ELSE Ret(<<Log("INFO", "Successfully logged into WebSinu directly"),
                         Log("INFO", "Error: SID not found on directly landed page form")>>,
                       NoneTriple)
    ELSE Ret(<<Log("INFO", "Successfully logged into WebSinu directly"),
               Log("INFO", "Error: Form 'frmData' not found on directly landed page")>>,
             NoneTriple)

\* main.py:75-138: what follows the answer to the login POST
AfterLoginPost(s, resp) ==
    IF ~resp.ok THEN NetworkError
    ELSE IF RedirectDetected(resp.page)
    THEN WithLogs(<<Log("INFO", "Detected JavaScript redirect page")>>,
                  RedirectForm(resp.page))
    ELSE IF TitleOk(resp.page)
    THEN DirectLanding(s, resp.page)
    ELSE Ret(<<Log("INFO", "Failed to log into WebSinu"),
               Log("INFO", "Response content")>>,
             NoneTriple)

\* main.py:99-111: what follows the answer to the second POST
AfterIntermediatePost(s, sid, resp) ==
    IF ~resp.ok THEN NetworkError ELSE TwoHopLanding(s, sid, resp.page)

NoLocals == <<NoneObj, NoneObj, NoneStr, NoneStr, NoneObj>>
SetLocalsNow(t) ==
    /\ session = t[1]
    /\ response = t[2]
    /\ intermediate_sid = t[3]
    /\ intermediate_hid_self_submit = t[4]
    /\ final_response = t[5]
SetLocals(t) ==
    /\ session' = t[1]
    /\ response' = t[2]
    /\ intermediate_sid' = t[3]
    /\ intermediate_hid_self_submit' = t[4]
    /\ final_response' = t[5]

LoginPayload ==
    [hidSelfSubmit |-> "default.asp", username |-> websinu_username,
     password |-> websinu_password, submit |-> " Intra "]
SecondPayload ==
    [hidSelfSubmit |-> intermediate_hid_self_submit, sid |-> intermediate_sid,
     hidOperation |-> "", hidNume_Facultate |-> "", hidNume_Specializare |-> ""]

Return(value) ==
    [e |-> "return", fn |-> "login_websinu", value |-> value, acct |-> idx]

\* login_websinu returns value to main.py:354-358 and :393-395; its locals
\* are gone.
LoginReturnsRetryOnce(logs, value, answer) ==
    /\ websinu_session' = value[1]
    /\ login_sid' = value[2]
    /\ initial_grades_html_content' = value[3]
    /\ SetLocals(NoLocals)
    /\ IF TruthyObj(value[1]) /\ TruthyStr(value[2]) /\ TruthyObj(value[3])
       THEN /\ events' = events \o logs \o
                 <<Return(value), Log("INFO", "Attempting to retrieve grades for user")>>
            /\ pc' = "get_grades"
            /\ idx' = idx
            /\ NotifyOutcome(FALSE, answer)
       ELSE IF Len(SelectSeq(events,
                     LAMBDA x : x.e = "post" /\ x.acct = idx
                                /\ x.url = login_url)) < 2
       THEN /\ events' = events \o logs \o <<Return(value)>>
            /\ pc' = "login"
            /\ idx' = idx
            /\ NotifyOutcome(FALSE, answer)
       ELSE /\ events' = events \o logs \o
                 <<Return(value), Log("ERROR", "Login failed for user")>>
                 \o send_ntfy_notification(global_ntfy_topic_url,
                        Msg("login failed", User), DefaultTitle,
                        <<"error", "x">>, answer)
            /\ EndOfBody
            /\ NotifyOutcome(TRUE, answer)
LoginReturns(logs, value, answer) ==
    /\ websinu_session' = value[1]
    /\ login_sid' = value[2]
    /\ initial_grades_html_content' = value[3]
    /\ SetLocals(NoLocals)
    /\ IF TruthyObj(value[1]) /\ TruthyStr(value[2]) /\ TruthyObj(value[3])
       THEN /\ events' = events \o logs \o
                 <<Return(value), Log("INFO", "Attempting to retrieve grades for user")>>
            /\ pc' = "get_grades"
            /\ idx' = idx
            /\ NotifyOutcome(FALSE, answer)
       ELSE /\ events' = events \o logs \o
                 <<Return(value), Log("ERROR", "Login failed for user")>>
                 \o send_ntfy_notification(global_ntfy_topic_url,
                        Msg("login failed", User), DefaultTitle,
                        <<"error", "x">>, answer)
            /\ EndOfBody
            /\ NotifyOutcome(TRUE, answer)

\* requests.Session() (main.py:68): an object no earlier call has made
SharedSession == [kind |-> "session", id |-> 1]
NewSession == [kind |-> "session", id |-> sessions_created + 1]

\* main.py:354, :58-74: the session is made, the login POST sent and answered
LoginPost ==
    /\ pc = "login"
    /\ \E resp \in Answers(LoginPages) :
        LET s == NewSession IN
        /\ sessions_created' = sessions_created + 1
        /\ session' = s
        /\ response' = resp
        /\ events' = events \o
             <<Log("INFO", "Attempting initial login POST request"),
               Post(login_url, s, LoginPayload, resp.ok)>>
    /\ pc' = "login_answered"
    /\ UNCHANGED <<idx, grades_response, global_ntfy_topic_url, mainUserVars, diffVars,
                   mainLoginVars, intermediate_sid,
                   intermediate_hid_self_submit, final_response, files, umask,
                   ntfy_failed>>

\* main.py:75-97 and :112-144: the answer to the login POST is read
LoginAnswer ==
    /\ pc = "login_answered"
    /\ \E answer \in NtfyAnswers :
        LET out == AfterLoginPost(session, response) IN
        IF out.next = "intermediate"
        THEN /\ intermediate_sid' = out.sid
             /\ intermediate_hid_self_submit' = out.hss
             /\ events' = events \o out.logs
             /\ pc' = "intermediate"
             /\ UNCHANGED <<idx, mainLoginVars, session, response,
                            final_response, ntfy_failed>>
        ELSE LoginReturns(out.logs, out.value, answer)
    /\ UNCHANGED <<grades_response, global_ntfy_topic_url, mainUserVars, diffVars, files, umask,
                   sessions_created>>

\* main.py:98: the second POST, to roluri.asp, is sent and answered
IntermediatePost ==
    /\ pc = "intermediate"
    /\ \E resp \in Answers(RoluriPages) :
        /\ final_response' = resp
        /\ events' = events \o
             <<Post(roluri_url, session, SecondPayload, resp.ok)>>
    /\ pc' = "intermediate_answered"
    /\ UNCHANGED <<idx, grades_response, global_ntfy_topic_url, mainUserVars, diffVars,
                   mainLoginVars, session, response, intermediate_sid,
                   intermediate_hid_self_submit, files, umask, sessions_created,
                   ntfy_failed>>

\* main.py:99-111 and :139-144: the answer to the second POST is read
IntermediateAnswer ==
    /\ pc = "intermediate_answered"
    /\ \E answer \in NtfyAnswers :
        LET out == AfterIntermediatePost(session, intermediate_sid,
                                         final_response)
        IN  LoginReturns(out.logs, out.value, answer)
    /\ UNCHANGED <<grades_response, global_ntfy_topic_url, mainUserVars, diffVars, files, umask,
                   sessions_created>>

(***************************************************************************)
(* get_grades (main.py:146-242)                                            *)
(***************************************************************************)
\* One grade record from the six cells of a row (main.py:215-229).
RowRecord(tds) ==
    [year |-> StripText(tds[1]), semester |-> StripText(tds[2]),
     subject |-> SubjectText(tds[3]), type |-> StripText(tds[4]),
     date |-> StripText(tds[5]), grade |-> StripText(tds[6])]

\* The loop over the rows (main.py:207-231) after the first n rows.
RECURSIVE ExtractLoopAtLeastSix(_, _)
ExtractLoopAtLeastSix(rows, n) ==
    IF n = 0 THEN <<>>
    ELSE LET grades_list == ExtractLoopAtLeastSix(rows, n - 1)
             tr == rows[n]
         IN  IF Len(tr.cells) >= 6 /\ tr.marked
             THEN Append(grades_list, RowRecord(tr.cells))
             ELSE grades_list
RECURSIVE ExtractLoop(_, _)
ExtractLoop(rows, n) ==
    IF n = 0 THEN <<>>
    ELSE LET grades_list == ExtractLoop(rows, n - 1)
             tr == rows[n]
         IN  IF Len(tr.cells) = 6 /\ tr.marked
             THEN Append(grades_list, RowRecord(tr.cells))
             ELSE grades_list

ExtractGrades(rows) == ExtractLoop(rows, Len(rows))

GradesPayloadNoNames(sid, anchor) ==
    [hidSelfSubmit |-> "roluri.asp", sid |-> sid, hidOperation |-> "N",
     hidNume_Facultate |-> "", hidNume_Specializare |-> ""]
GradesPayload(sid, anchor) ==
    [hidSelfSubmit |-> "roluri.asp", sid |-> sid, hidOperation |-> "N",
     hidNume_Facultate |-> StripText(anchor.faculty),
     hidNume_Specializare |-> StripText(anchor.specialization)]

\* get_grades returns grades to main.py:358-361 and :390-392.
GradesReturnsSilent(evs, grades, answer) ==
    /\ current_grades' = grades
    /\ IF TruthyList(grades)
       THEN /\ events' = events \o evs \o
                 <<Log("INFO", "Found current grades for user")>>
            /\ pc' = "report"
            /\ idx' = idx
            /\ NotifyOutcome(FALSE, answer)
       ELSE /\ events' = events \o evs \o
                 <<Log("ERROR", "Could not retrieve current grades for user")>>
            /\ EndOfBody
            /\ NotifyOutcome(FALSE, answer)
GradesReturnsAlwaysReports(evs, grades, answer) ==
    /\ current_grades' = grades
    /\ events' = events \o evs \o
         <<Log("INFO", "Found current grades for user")>>
    /\ pc' = "report"
    /\ idx' = idx
    /\ NotifyOutcome(FALSE, answer)
GradesReturns(evs, grades, answer) ==
    /\ current_grades' = grades
    /\ IF TruthyList(grades)
       THEN /\ events' = events \o evs \o
                 <<Log("INFO", "Found current grades for user")>>
            /\ pc' = "report"
            /\ idx' = idx
            /\ NotifyOutcome(FALSE, answer)
       ELSE /\ events' = events \o evs \o
                 <<Log("ERROR", "Could not retrieve current grades for user")>>
                 \o send_ntfy_notification(global_ntfy_topic_url,
                        Msg("failed to retrieve grades", User), DefaultTitle,
                        <<"warning", "exclamation">>, answer)
            /\ EndOfBody
            /\ NotifyOutcome(TRUE, answer)

\* main.py:358, :158-242
GetGrades ==
    /\ pc = "get_grades"
    /\ \E resp \in Answers(GradesPages), answer \in NtfyAnswers :
        LET anchor == initial_grades_html_content.anchor
            parsing == Log("INFO", "Parsing HTML from successful login")
            using == Log("INFO", "Using SID obtained from login for grade view")
            post == Post(roluri_url, websinu_session,
                         GradesPayload(login_sid, anchor), resp.ok)
            grades_list == ExtractGrades(resp.page.rows)
        IN  IF ~TruthyStr(login_sid)
            THEN GradesReturns(<<parsing, Log("ERROR", "Initial SID not provided to get_grades")>>,
                               <<>>, answer)
            ELSE IF anchor.kind = "none"
            THEN GradesReturns(<<parsing, using, Log("ERROR", "Could not find 'Vizualizare note' link")>>,
                               <<>>, answer)
            ELSE IF anchor.kind = "nomatch"
            THEN GradesReturns(<<parsing, using,
                                 Log("ERROR", "Could not parse 'NoteSesiuneaCurenta' arguments"),
                                 Log("ERROR", "JavaScript call found")>>,
                               <<>>, answer)
            ELSE IF ~resp.ok
            THEN GradesReturns(<<parsing, using, Log("INFO", "Found faculty and specialization"),
                                 Log("INFO", "Sending POST request to display grades"),
                                 post,
                                 Log("ERROR", "grades: network or HTTP error")>>,
                               <<>>, answer)
            ELSE GradesReturns(
                    <<parsing, using, Log("INFO", "Found faculty and specialization"),
                      Log("INFO", "Sending POST request to display grades"),
                      post>>
                    \o (IF grades_list = <<>>
                        THEN <<Log("WARNING", "No grades found after parsing")>>
                        ELSE <<>>),
                    grades_list, answer)
    /\ UNCHANGED <<grades_response, global_ntfy_topic_url, mainUserVars, previous_grades,
                   new_entries, changed_entries, mainLoginVars, loginVars,
                   files, umask, sessions_created>>

(***************************************************************************)
(* main.py:360-388: compare, notify, save                                  *)
(***************************************************************************)
\* The notification and the log line of each entry (main.py:367-371 and
\* :374-378); answers[k] is how the request for entries[k] ends.
RECURSIVE EntryEvents(_, _, _, _, _)
EntryEvents(entries, kind, title, tags, answers) ==
    IF entries = <<>> THEN <<>>
    ELSE send_ntfy_notification(global_ntfy_topic_url,
             [kind |-> kind, user |-> User, entry |-> Head(entries)],
             title, tags, Head(answers))
         \o <<Log("INFO", "Notified")>>
         \o EntryEvents(Tail(entries), kind, title, tags, Tail(answers))

\* How many notifications main.py:363-386 send.
NumReportNotifications(new, changed) ==
    IF ~TruthyList(previous_grades) \/ Len(new) + Len(changed) = 0
    THEN 1
    ELSE Len(new) + Len(changed)

\* The order of main.py:363-388: what is told (the notifications of the
\* comparison, or of the first run), then the save.
ReportEventsSaveFirst(told, saving) == saving \o told
ReportEvents(told, saving) == told \o saving

Report ==
    /\ pc = "report"
    /\ \E outcome \in SaveOutcomes :
        LET cmp == compare_grades(previous_grades, current_grades)
            n == NumReportNotifications(cmp[1], cmp[2])
        IN  \E answers \in [1..n -> NtfyAnswers] :
        LET saved == save_current_grades(User, current_grades, outcome)
            told ==
                IF TruthyList(previous_grades)
                THEN EntryEvents(cmp[1], "new grade",
                                 "New WebSinu Grade for " \o User \o "!",
                                 <<"new", "sparkles">>,
                                 SubSeq(answers, 1, Len(cmp[1])))
                     \o EntryEvents(cmp[2], "grade changed",
                                    "WebSinu Grade Changed for " \o User \o "!",
                                    <<"changed", "warning">>,
                                    SubSeq(answers, Len(cmp[1]) + 1, n))
                     \o (IF ~TruthyList(cmp[1]) /\ ~TruthyList(cmp[2])
                         THEN <<Log("INFO", "No new or changed grades found")>>
                              \o send_ntfy_notification(global_ntfy_topic_url,
                                     Msg("no new grades", User), DefaultTitle,
                                     <<"check">>, answers[1])
                         ELSE <<>>)
                ELSE <<Log("INFO", "First run or no previous grades found")>>
                     \o send_ntfy_notification(global_ntfy_topic_url,
                            [kind |-> "first check", user |-> User,
                             found |-> Len(current_grades)],
                            DefaultTitle, <<"info">>, answers[1])
        IN  /\ IF TruthyList(previous_grades)
               THEN new_entries' = cmp[1] /\ changed_entries' = cmp[2]
               ELSE UNCHANGED <<new_entries, changed_entries>>
            /\ events' = events \o ReportEvents(told,
                 <<[e |-> "save", user |-> User, grades |-> current_grades,
                    outcome |-> outcome, acct |-> idx],
                   saved[2]>>)
            /\ files' = [files EXCEPT ![User] = saved[1]]
            /\ ntfy_failed' =
                 (ntfy_failed \/ \E k \in 1..n : answers[k] # "sent")
            /\ EndOfBody
    /\ UNCHANGED <<grades_response, global_ntfy_topic_url, mainUserVars, previous_grades,
                   current_grades, mainLoginVars, loginVars, umask,
                   sessions_created>>

(***************************************************************************)
(* Spec: one run of the program                                            *)
(***************************************************************************)
Users == {USER_IDENTIFIERS[i] : i \in 1..Len(USER_IDENTIFIERS)}

\* The state before main.py:317, the snapshot files apart.
MainIdle ==
    /\ idx = 0
    /\ global_ntfy_topic_url = NoneStr
    /\ websinu_username = NoneStr
    /\ websinu_password = NoneStr
    /\ websinu_session = NoneObj
    /\ login_sid = NoneStr
    /\ initial_grades_html_content = NoneObj
    /\ session = NoneObj
    /\ response = NoneObj
    /\ intermediate_sid = NoneStr
    /\ intermediate_hid_self_submit = NoneStr
    /\ final_response = NoneObj
    /\ grades_response = NoneObj
    /\ sessions_created = 0
    /\ ntfy_failed = FALSE
    /\ events = <<>>

Init ==
    /\ pc = "start"
    /\ MainIdle
    /\ files \in [Users -> InitialFiles]
    /\ umask \in Umasks
    /\ previous_grades = <<>>
    /\ current_grades = <<>>
    /\ new_entries = <<>>
    /\ changed_entries = <<>>

Next ==
    \/ Start
    \/ BeginUser
    \/ LoginPost
    \/ LoginAnswer
    \/ IntermediatePost
    \/ IntermediateAnswer
    \/ GetGrades
    \/ Report
    \/ Pause
    \/ Finish

Spec == Init /\ [][Next]_vars

\* The program is one sequential thread: every statement is followed by the
\* next one, and every request made with requests is answered or raises.
SpecLive == Spec /\ WF_vars(Next)

(***************************************************************************)
(* SpecRuns: the program is started, runs to its end and is started once   *)
(* more; the snapshot files are all that the second run has of the first.  *)
(* The first entry of events in the second run records what the first run  *)
(* saved for each user.  Before the first run the first user has a         *)
(* snapshot of an earlier run; the others have none, or one the process    *)
(* may write but not read.                                                 *)
(***************************************************************************)
InitRuns ==
    /\ pc = "start"
    /\ MainIdle
    /\ files \in {[u \in Users |->
                      IF u = USER_IDENTIFIERS[1] THEN Json(<<Algebra7>>)
                      ELSE f] : f \in {Missing, Unreadable(Json(<<Algebra7>>))}}
    /\ umask \in Umasks
    /\ previous_grades = <<>>
    /\ current_grades = <<>>
    /\ new_entries = <<>>
    /\ changed_entries = <<>>

\* what the run that ended saved without error for account a (<<>>: nothing)
SavedBy(evs, a) ==
    LET sv == SelectSeq(evs, LAMBDA x :
                  x.e = "save" /\ x.acct = a /\ x.outcome = "saved")
    IN  IF sv = <<>> THEN <<>> ELSE sv[Len(sv)].grades
RunEnded(evs) ==
    [e |-> "run ended", acct |-> 0,
     saved |-> [a \in 1..NumUsers |-> SavedBy(evs, a)]]
InSecondRun == Len(events) > 0 /\ events[1].e = "run ended"

\* The process has ended (main.py:403); the program is started again.
NextRun ==
    /\ pc = "done"
    /\ ~InSecondRun
    /\ pc' = "start"
    /\ idx' = 0
    /\ global_ntfy_topic_url' = NoneStr
    /\ websinu_username' = NoneStr
    /\ websinu_password' = NoneStr
    /\ websinu_session' = NoneObj
    /\ login_sid' = NoneStr
    /\ initial_grades_html_content' = NoneObj
    /\ SetLocals(NoLocals)
    /\ grades_response' = NoneObj
    /\ sessions_created' = 0
    /\ ntfy_failed' = FALSE
    /\ previous_grades' = <<>>
    /\ current_grades' = <<>>
    /\ new_entries' = <<>>
    /\ changed_entries' = <<>>
    /\ events' = <<RunEnded(events)>>
    /\ umask' \in Umasks
    /\ UNCHANGED files

NextRuns == Next \/ NextRun

SpecRuns == InitRuns /\ [][NextRuns]_vars

(***************************************************************************)
(* SpecDiff: compare_grades on every pair of record sequences of length at *)
(* most MaxPrev and MaxCur.                                                *)
(***************************************************************************)
InitDiff ==
    /\ pc = "diff"
    /\ previous_grades \in SeqsUpTo(Records, MaxPrev)
    /\ current_grades \in SeqsUpTo(Records, MaxCur)
    /\ new_entries = <<>>
    /\ changed_entries = <<>>
    /\ MainIdle
    /\ files = [u \in Users |-> Missing]
    /\ umask = "0022"

Compare ==
    /\ pc = "diff"
    /\ pc' = "compared"
    /\ new_entries' = compare_grades(previous_grades, current_grades)[1]
    /\ changed_entries' = compare_grades(previous_grades, current_grades)[2]
    /\ UNCHANGED <<previous_grades, current_grades, idx,
                   grades_response, global_ntfy_topic_url, mainUserVars, mainLoginVars,
                   loginVars, files, umask, sessions_created, ntfy_failed, events>>

NextDiff == Compare

SpecDiff == InitDiff /\ [][NextDiff]_vars

(***************************************************************************)
(* SpecExtract: the extraction loop of get_grades (main.py:205-235) on     *)
(* every list of at most MaxRows rows.                                     *)
(***************************************************************************)
LongRow == Row(<<"1", "1", "Algebra", "E", "2024-02-01", "9", "x">>, TRUE)
NbspRow == Row(<<"1", "1", "Baze<nbsp>de date", "E", "2024-02-01", " 9 ">>, TRUE)
RowKinds ==
    {RowOf(Algebra7), RowOf(Algebra9), RowOf(Databases7), HeaderRow, ShortRow,
     LongRow, NbspRow}

InitExtract ==
    /\ pc = "extract"
    /\ \E rows \in SeqsUpTo(RowKinds, MaxRows) :
           grades_response =
               [ok |-> TRUE,
                page |-> Page(FALSE, FALSE, LandingTitle, NoForm, NoAnchor, rows)]
    /\ previous_grades = <<>>
    /\ current_grades = <<>>
    /\ new_entries = <<>>
    /\ changed_entries = <<>>
    /\ idx = 0
    /\ global_ntfy_topic_url = NoneStr
    /\ websinu_username = NoneStr
    /\ websinu_password = NoneStr
    /\ websinu_session = NoneObj
    /\ login_sid = NoneStr
    /\ initial_grades_html_content = NoneObj
    /\ SetLocalsNow(NoLocals)
    /\ sessions_created = 0
    /\ ntfy_failed = FALSE
    /\ events = <<>>
    /\ files = [u \in Users |-> Missing]
    /\ umask = "0022"

\* main.py:205-235: grades_list is built from the rows of the answer
Extract ==
    /\ pc = "extract"
    /\ pc' = "extracted"
    /\ current_grades' = ExtractGrades(grades_response.page.rows)
    /\ events' = events \o
         (IF ExtractGrades(grades_response.page.rows) = <<>>
          THEN <<Log("WARNING", "No grades found after parsing")>>
          ELSE <<>>)
    /\ UNCHANGED <<previous_grades, new_entries, changed_entries, idx,
                   grades_response, global_ntfy_topic_url, mainUserVars,
                   mainLoginVars, loginVars, files, umask, sessions_created,
                   ntfy_failed>>

NextExtract == Extract

SpecExtract == InitExtract /\ [][NextExtract]_vars

(***************************************************************************)
(* Properties of compare_grades, checked under SpecDiff.                   *)
(***************************************************************************)
Compared == pc = "compared"

KeysIn(s) == {IdentityKey(s[i]) : i \in 1..Len(s)}
IndicesOf(s, k) == {i \in 1..Len(s) : IdentityKey(s[i]) = k}
MaxOf(S) == CHOOSE x \in S : \A y \in S : y <= x
MinOf(S) == CHOOSE x \in S : \A y \in S : x <= y
LastGrade(s, k) == s[MaxOf(IndicesOf(s, k))].grade
FirstGrade(s, k) == s[MinOf(IndicesOf(s, k))].grade
MapSeq(s, F(_)) == [i \in 1..Len(s) |-> F(s[i])]
\* the elements of s at the positions in S, in the order of s
Pick(s, S) ==
    LET at == SelectSeq([i \in 1..Len(s) |-> i], LAMBDA i : i \in S)
    IN  [j \in 1..Len(at) |-> s[at[j]]]
SameKeySameGrade(s) ==
    \A i, j \in 1..Len(s) :
        IdentityKey(s[i]) = IdentityKey(s[j]) => s[i].grade = s[j].grade
\* the changed entries expected when each key of previous stands for Ref(key)
ExpectedChanged(Ref(_)) ==
    MapSeq(SelectSeq(current_grades,
                     LAMBDA c : /\ IdentityKey(c) \in KeysIn(previous_grades)
                                /\ Ref(IdentityKey(c)) # c.grade),
           LAMBDA c : [old_grade |-> Ref(IdentityKey(c)), new_grade |-> c.grade,
                       subject |-> c.subject, year |-> c.year,
                       semester |-> c.semester, date |-> c.date])

\* C1 (as stated): compare_grades(P, P) returns ([], []) for every P, also
\* when several records of P share the identity key.
C1_SelfDiffEmpty ==
    (Compared /\ previous_grades = current_grades)
        => (new_entries = <<>> /\ changed_entries = <<>>)

\* C1 (amended): compare_grades(P, P) returns no new record for every P, and
\* returns no changed entry exactly when the records of P that share an
\* identity key also share their grade (in particular when all keys are
\* distinct).
C1_SelfDiffEmptyIffGradesAgree ==
    (Compared /\ previous_grades = current_grades)
        => /\ new_entries = <<>>
           /\ (changed_entries = <<>>) <=> SameKeySameGrade(previous_grades)

C1_Witness ==
    /\ Compared
    /\ previous_grades = current_grades
    /\ Len(previous_grades) = 2
    /\ IdentityKey(previous_grades[1]) = IdentityKey(previous_grades[2])
    /\ previous_grades[1] # previous_grades[2]
    /\ previous_grades[1].grade = previous_grades[2].grade
    /\ new_entries = <<>>
    /\ changed_entries = <<>>

\* C2: with an empty previous sequence compare_grades returns current itself
\* (same records, order and multiplicity) as new and nothing as changed.
C2_EmptyPreviousAllNew ==
    (Compared /\ previous_grades = <<>>)
        => (new_entries = current_grades /\ changed_entries = <<>>)

C2_Witness ==
    /\ Compared
    /\ previous_grades = <<>>
    /\ Len(current_grades) = 3
    /\ current_grades[1] = current_grades[3]
    /\ current_grades[1] # current_grades[2]
    /\ new_entries = current_grades

\* C3: every record c of current falls in exactly one class: new when no
\* record of previous has c's key; changed when the key is present and the
\* stored grade differs from c's grade, with an entry carrying the stored
\* grade, c's grade and c's subject, year, semester and date; unchanged
\* (nothing emitted) otherwise.
C3_Classification ==
    Compared =>
        LET stored(k) == OldGradesMap(previous_grades)[k]
            isNew(c) == IdentityKey(c) \notin KeysIn(previous_grades)
            isChanged(c) == ~isNew(c) /\ stored(IdentityKey(c)) # c.grade
            isSame(c) == ~isNew(c) /\ stored(IdentityKey(c)) = c.grade
        IN  /\ new_entries = SelectSeq(current_grades, isNew)
            /\ changed_entries = ExpectedChanged(stored)
            /\ Len(new_entries) + Len(changed_entries)
                 + Len(SelectSeq(current_grades, isSame)) = Len(current_grades)

C3_Witness ==
    /\ Compared
    /\ previous_grades =
         <<[year |-> "1", semester |-> "1", subject |-> "Algebra", type |-> "E",
            date |-> "2024-01-10", grade |-> "7"]>>
    /\ Len(current_grades) = 3
    /\ Len(new_entries) = 1
    /\ changed_entries =
         <<[old_grade |-> "7", new_grade |-> "9", subject |-> "Algebra",
            year |-> "1", semester |-> "1", date |-> "2024-02-01"]>>

\* C4: both outputs come from current only and keep its order: new is a
\* subsequence of current, changed corresponds one-to-one and in order to a
\* subsequence of current, and nothing is emitted for a record of previous
\* whose key does not occur in current.
C4_OutputsFollowCurrent ==
    Compared =>
        /\ \E S \in SUBSET (1..Len(current_grades)) :
               new_entries = Pick(current_grades, S)
        /\ \E T \in SUBSET (1..Len(current_grades)) :
               LET picked == Pick(current_grades, T) IN
               /\ Len(changed_entries) = Len(picked)
               /\ \A j \in 1..Len(picked) :
                      /\ changed_entries[j].subject = picked[j].subject
                      /\ changed_entries[j].year = picked[j].year
                      /\ changed_entries[j].semester = picked[j].semester
                      /\ changed_entries[j].date = picked[j].date
                      /\ changed_entries[j].new_grade = picked[j].grade
        /\ \A k \in KeysIn(previous_grades) \ KeysIn(current_grades) :
               /\ \A j \in 1..Len(new_entries) : IdentityKey(new_entries[j]) # k
               /\ \A j \in 1..Len(changed_entries) :
                      IdentityKey(changed_entries[j]) # k

C4_Witness ==
    /\ Compared
    /\ KeysIn(previous_grades) \ KeysIn(current_grades) # {}
    /\ Len(new_entries) = 2
    /\ new_entries[1] # new_entries[2]
    /\ Len(changed_entries) = 1
    /\ current_grades[2] \notin {new_entries[1], new_entries[2]}

\* C5: when previous holds several records with one identity key, each
\* current record of that key is compared against the grade of the LAST such
\* record of previous.
C5_LastWriteWins ==
    Compared =>
        /\ \A k \in KeysIn(previous_grades) :
               OldGradesMap(previous_grades)[k] = LastGrade(previous_grades, k)
        /\ changed_entries = ExpectedChanged(LAMBDA k : LastGrade(previous_grades, k))

C5_Witness ==
    /\ Compared
    /\ Len(previous_grades) = 2
    /\ IdentityKey(previous_grades[1]) = IdentityKey(previous_grades[2])
    /\ previous_grades[1].grade # previous_grades[2].grade
    /\ Len(current_grades) = 1
    /\ current_grades[1].grade = previous_grades[1].grade
    /\ IdentityKey(current_grades[1]) = IdentityKey(previous_grades[1])
    /\ Len(changed_entries) = 1
    /\ changed_entries[1].old_grade = previous_grades[2].grade

\* C6 (as stated): with several records of one key in the old snapshot, the
\* grade a current record is compared against is that of the FIRST record of
\* the key in previous.
C6_FirstEntryWins ==
    Compared =>
        changed_entries = ExpectedChanged(LAMBDA k : FirstGrade(previous_grades, k))

\* C6 (amended): with several records of one key in the old snapshot, diffing
\* inspects only ONE grade for that key, the grade of the LAST record of the
\* key in previous: every changed entry of such a key reports that grade as
\* old_grade, and the current records of the key that are reported are those
\* whose grade differs from it, whatever the first record's grade was.
C6_OnlyLastEntryInspected ==
    Compared =>
        \A k \in KeysIn(previous_grades) :
            Cardinality(IndicesOf(previous_grades, k)) > 1 =>
                /\ \A j \in 1..Len(changed_entries) :
                       IdentityKey(changed_entries[j]) = k =>
                           /\ changed_entries[j].old_grade
                                = LastGrade(previous_grades, k)
                           /\ changed_entries[j].new_grade
                                # LastGrade(previous_grades, k)
                /\ Cardinality(IndicesOf(changed_entries, k))
                     = Cardinality({i \in IndicesOf(current_grades, k) :
                            current_grades[i].grade # LastGrade(previous_grades, k)})

C6_Witness ==
    /\ Compared
    /\ Len(previous_grades) = 2
    /\ IdentityKey(previous_grades[1]) = IdentityKey(previous_grades[2])
    /\ FirstGrade(previous_grades, IdentityKey(previous_grades[1])) = "7"
    /\ LastGrade(previous_grades, IdentityKey(previous_grades[1])) = "9"
    /\ Len(current_grades) = 2
    /\ IdentityKey(current_grades[1]) = IdentityKey(previous_grades[1])
    /\ IdentityKey(current_grades[2]) = IdentityKey(previous_grades[1])
    /\ current_grades[1].grade = "7"
    /\ current_grades[2].grade = "9"
    /\ Len(changed_entries) = 1
    /\ changed_entries[1].old_grade = "9"
    /\ changed_entries[1].new_grade = "7"

(***************************************************************************)
(* Properties of login_websinu and of the requests of a run, checked under *)
(* Spec.                                                                   *)
(***************************************************************************)
\* login_websinu returns in this step
LoginReturnsNow ==
    \/ pc = "login_answered" /\ pc' # "intermediate"
    \/ pc = "intermediate_answered"

\* what login_websinu hands to main.py:354 in this step
ReturnedNow == <<websinu_session', login_sid', initial_grades_html_content'>>

IsPost(x) == x.e = "post"
IsLoginPost(x) == x.e = "post" /\ x.url = login_url
IsIntermediatePost(x) ==
    x.e = "post" /\ x.url = roluri_url /\ x.data.hidOperation = ""
IsRecordsPost(x) ==
    x.e = "post" /\ x.url = roluri_url /\ x.data.hidOperation = "N"
CountOf(evs, a, P(_)) == Len(SelectSeq(evs, LAMBDA x : x.acct = a /\ P(x)))
\* account a's iteration is the one events holds in full
Visible(a) == a = idx \/ (a + 1 = idx /\ pc = "user")
HasLog(a, msg) ==
    \E i \in 1..Len(events) :
        events[i].e = "log" /\ events[i].acct = a /\ events[i].msg = msg

LoginFailedLogged ==
    \E i \in 1..Len(events) :
        events[i].e = "log" /\ events[i].msg = "Login failed for user"

\* C7: login_websinu returns a success triple only when the landing page it
\* returns (the answer to the second POST on the two-hop path, the login
\* answer on the direct path) has exactly the landing title and the token it
\* returns is the non-empty sid of the frmData form of the login answer (the
\* intermediate page on the two-hop path, the landing page on the direct
\* path); otherwise it returns (None, None, None), never a partial triple.
C7_SuccessOnlyOnLandingTitleAndFormSid ==
    [][LoginReturnsNow =>
        LET twoHop == pc = "intermediate_answered"
            landing == IF twoHop THEN final_response ELSE response
        IN  \/ ReturnedNow = NoneTriple
            \/ /\ response.ok
               /\ landing.ok
               /\ landing.page.title = LandingTitle
               /\ response.page.form.present
               /\ response.page.form.sid \notin {NoInput, NoValue, ""}
               /\ twoHop <=> (response.page.js /\ response.page.roluri)
               /\ ReturnedNow = <<session, response.page.form.sid, landing.page>>
      ]_vars

C7_Witness ==
    /\ pc = "get_grades"
    /\ idx = 2
    /\ login_sid = "S1"
    /\ initial_grades_html_content.title = LandingTitle
    /\ initial_grades_html_content.form.sid = "S2"
    /\ CountOf(events, 2, IsIntermediatePost) = 1
    /\ \E i \in 1..Len(events) :
           /\ events[i].e = "return"
           /\ events[i].acct = 2
           /\ events[i].value = <<websinu_session, "S1", initial_grades_html_content>>

\* C8: when the redirect form of the two-hop path has no sid input, login
\* fails and the second POST is never sent; when the frmData form or its sid
\* input is missing on the direct path, login fails although the landing
\* title matched.
C8_MissingSidFails ==
    /\ [][(pc = "login_answered" /\ response.ok) =>
            LET p == response.page
                redirect == p.js /\ p.roluri
                fails == /\ ReturnedNow = NoneTriple
                         /\ pc' \notin {"intermediate", "get_grades"}
                         /\ \E i \in (Len(events) + 1)..Len(events') :
                                events'[i] = Return(NoneTriple)
                         /\ CountOf(events', idx, IsPost) = 1
            IN  /\ (redirect /\ p.form.present /\ p.form.sid = NoInput) => fails
                /\ (~redirect /\ p.title = LandingTitle
                      /\ (~p.form.present \/ p.form.sid = NoInput)) => fails
         ]_vars
    /\ [](\A a \in 1..NumUsers :
            HasLog(a, "Could not extract SID from intermediate redirect page")
                => CountOf(events, a, IsIntermediatePost) = 0)

C8_Witness ==
    /\ pc = "done"
    /\ HasLog(2, "Could not extract SID from intermediate redirect page")
    /\ CountOf(events, 2, IsPost) = 1
    /\ CountOf(events, 2, IsIntermediatePost) = 0
    /\ LoginFailedLogged

\* the return of login_websinu at events[i] directly follows the log line msg
ReturnAfter(i, msg) ==
    /\ i > 1
    /\ events[i].e = "return"
    /\ events[i - 1].e = "log"
    /\ events[i - 1].msg = msg
TitleMismatchLine == "Final Response content"     \* main.py:110
NotLoggedInLine == "Response content"             \* main.py:137

\* C9 (as stated): a landing-title mismatch after the two-hop path is
\* reported as an outcome the caller can tell apart from the one reported
\* when the first login answer is neither a redirect page nor the landing
\* page, which is (None, None, None).
C9_MismatchToldApart ==
    \A i \in 1..Len(events) :
        /\ ReturnAfter(i, TitleMismatchLine) => events[i].value # NoneTriple
        /\ ReturnAfter(i, NotLoggedInLine) => events[i].value = NoneTriple

\* C9 (amended): a landing-title mismatch after the two-hop path and a first
\* login answer that is neither a redirect page nor the landing page are
\* both reported to the caller as the same (None, None, None); the caller
\* cannot tell them apart and in both cases logs "Login failed" and sends the
\* same login-failed notification; only the line login_websinu logs differs.
\* Neither case ends the run.
C9_MismatchSameAsNotLoggedIn ==
    \A i \in 1..Len(events) :
        (ReturnAfter(i, TitleMismatchLine) \/ ReturnAfter(i, NotLoggedInLine))
            => /\ events[i].value = NoneTriple
               /\ Len(events) >= i + 2
               /\ events[i + 1].e = "log"
               /\ events[i + 1].msg = "Login failed for user"
               /\ events[i + 2].e = "ntfy"
               /\ events[i + 2].message
                    = Msg("login failed", USER_IDENTIFIERS[events[i].acct])
               /\ pc \in {"pause", "user", "login", "login_answered",
                          "intermediate", "intermediate_answered",
                          "get_grades", "report", "finish", "done"}

C9_Witness ==
    /\ pc = "done"
    /\ \E i \in 1..Len(events) :
           /\ ReturnAfter(i, TitleMismatchLine)
           /\ events[i].acct = 2
           /\ events[i].value = NoneTriple
           /\ events[i + 2].message = Msg("login failed", "STUDENT_B")

\* a failed portal request or a failed check on a portal answer
GradesCheckLines ==
    {"Initial SID not provided to get_grades",
     "Could not find 'Vizualizare note' link",
     "Could not parse 'NoteSesiuneaCurenta' arguments",
     "No grades found after parsing"}
PortalFailure(x) ==
    \/ x.e = "post" /\ ~x.ok
    \/ x.e = "return" /\ x.value = NoneTriple
    \/ x.e = "log" /\ x.msg \in GradesCheckLines

\* C10: nothing is retried.  In one run and for each account the login
\* POST, the second POST and the records POST are each sent at most once; the
\* second POST only after a login answer that carries the redirect markers
\* and a sid; the records POST only after login_websinu returned a success
\* triple; and after a failed request or a failed check no further portal
\* request is sent for that account.
C10_NothingRetried ==
    /\ [](\A a \in 1..NumUsers :
            /\ CountOf(events, a, IsLoginPost) <= 1
            /\ CountOf(events, a, IsIntermediatePost) <= 1
            /\ CountOf(events, a, IsRecordsPost) <= 1
            /\ \A j \in 1..Len(events) :
                   /\ (events[j].acct = a /\ IsPost(events[j]))
                        => ~\E i \in 1..(j - 1) :
                               events[i].acct = a /\ PortalFailure(events[i])
                   /\ (events[j].acct = a /\ IsIntermediatePost(events[j]))
                        => \E i \in 1..(j - 1) :
                               /\ events[i].acct = a
                               /\ IsLoginPost(events[i])
                               /\ events[i].ok
                   /\ (events[j].acct = a /\ IsRecordsPost(events[j]))
                        => \E i \in 1..(j - 1) :
                               /\ events[i].acct = a
                               /\ events[i].e = "return"
                               /\ events[i].value # NoneTriple
                               /\ events[i].value[2] = events[j].data.sid)
    /\ [][CountOf(events', idx, IsIntermediatePost)
            > CountOf(events, idx, IsIntermediatePost)
          => /\ response.ok
             /\ response.page.js
             /\ response.page.roluri
             /\ response.page.form.present
             /\ response.page.form.sid \notin {NoInput, NoValue, ""}
             /\ events'[Len(events')].data.sid = response.page.form.sid
         ]_vars

C10_Witness ==
    /\ pc = "done"
    /\ CountOf(events, 2, IsLoginPost) = 1
    /\ CountOf(events, 2, IsIntermediatePost) = 1
    /\ CountOf(events, 2, IsRecordsPost) = 1
    /\ CountOf(events, 2, LAMBDA x : IsPost(x) /\ ~x.ok) = 1
    /\ events[Len(events)].acct = 2

(***************************************************************************)
(* Properties of get_grades.                                               *)
(***************************************************************************)
\* what the step appends to events
NewEvents ==
    SubSeq(events',
           (IF pc = "user" THEN Len(Digest(events)) ELSE Len(events)) + 1,
           Len(events'))
NewPosts == SelectSeq(NewEvents, IsPost)
\* the success triple login_websinu returned for the account of the loop
HandshakeTokens ==
    {events[i].value[2] : i \in {j \in 1..Len(events) :
        /\ events[j].e = "return"
        /\ events[j].acct = idx
        /\ events[j].value # NoneTriple}}

\* C11: get_grades sends no POST and returns nothing when the landing page
\* has no anchor calling NoteSesiuneaCurenta or the two-argument pattern does
\* not match; otherwise it sends exactly one POST, to roluri.asp, whose sid is
\* the token the handshake returned, whose hidOperation is N, whose
\* hidSelfSubmit is roluri.asp and whose faculty and specialization are the
\* two (stripped) arguments of the call.
C11_RecordsPost ==
    [][pc = "get_grades" =>
        LET anchor == initial_grades_html_content.anchor IN
        IF anchor.kind # "call"
        THEN /\ NewPosts = <<>>
             /\ current_grades' = <<>>
             /\ pc' # "report"
        ELSE /\ Len(NewPosts) = 1
             /\ NewPosts[1].url = roluri_url
             /\ NewPosts[1].session = websinu_session.id
             /\ NewPosts[1].data.sid \in HandshakeTokens
             /\ NewPosts[1].data.hidOperation = "N"
             /\ NewPosts[1].data.hidSelfSubmit = "roluri.asp"
             /\ anchor = CallAnchor(" Automatica ", "Calculatoare")
             /\ NewPosts[1].data.hidNume_Facultate = "Automatica"
             /\ NewPosts[1].data.hidNume_Specializare = "Calculatoare"
             /\ DOMAIN NewPosts[1].data =
                  {"hidSelfSubmit", "sid", "hidOperation", "hidNume_Facultate",
                   "hidNume_Specializare"}
             /\ CountOf(events', idx, IsRecordsPost) = 1
      ]_vars

C11_Witness ==
    /\ pc = "done"
    /\ \E i \in 1..Len(events) :
           /\ IsRecordsPost(events[i])
           /\ events[i].acct = 2
           /\ events[i].data.sid = "S1"
           /\ events[i].data.hidNume_Facultate = "Automatica"
    /\ CountOf(events, 2, IsRecordsPost) = 1
    /\ CountOf(events, 2, IsLoginPost) = 1

\* a row the extraction keeps: exactly six direct cells, and the nearest
\* enclosing table has the marker class
Qualifies(tr) == Len(tr.cells) = 6 /\ tr.marked

\* C12: the extraction yields one record for exactly the rows with exactly
\* six direct cells whose nearest enclosing table carries the marker class,
\* in document order, without deduplication or sorting, the fields taken in
\* the order year, semester, subject, type, date, grade.
C12_ExtractionKeepsQualifyingRows ==
    pc = "extracted" =>
        LET kept == SelectSeq(grades_response.page.rows, Qualifies) IN
        /\ Len(current_grades) = Len(kept)
        /\ \A k \in 1..Len(kept) :
               /\ current_grades[k].year = StripText(kept[k].cells[1])
               /\ current_grades[k].semester = StripText(kept[k].cells[2])
               /\ current_grades[k].subject = SubjectText(kept[k].cells[3])
               /\ current_grades[k].type = StripText(kept[k].cells[4])
               /\ current_grades[k].date = StripText(kept[k].cells[5])
               /\ current_grades[k].grade = StripText(kept[k].cells[6])

C12_Witness ==
    /\ pc = "extracted"
    /\ grades_response.page.rows = <<RowOf(Algebra9), LongRow, RowOf(Algebra9)>>
    /\ current_grades = <<Algebra9, Algebra9>>

C12_WitnessUnmarked ==
    /\ pc = "extracted"
    /\ grades_response.page.rows = <<HeaderRow, ShortRow, RowOf(Databases7)>>
    /\ current_grades = <<Databases7>>

(***************************************************************************)
(* Properties of the per-account loop of __main__.                         *)
(***************************************************************************)
TakenUpLine == "Processing grades for user"      \* main.py:329
\* positions in events of the account a's being taken up
TakenUpAt(a) ==
    {i \in 1..Len(events) :
        /\ events[i].e = "log"
        /\ events[i].acct = a
        /\ events[i].msg = TakenUpLine}
IsBatchComplete(x) ==
    x.e = "ntfy" /\ x.message.kind = "all checks completed"
\* the log line that tells how a notification request ended (main.py:42-46)
IsNtfyOutcomeLog(x) ==
    /\ x.e = "log"
    /\ x.msg \in {"Ntfy notification sent successfully",
                  "Failed to send Ntfy notification",
                  "An unexpected error occurred while sending Ntfy notification"}
\* the run's last step is the batch-complete request and its outcome line
EndsWithBatchComplete ==
    /\ Len(events) >= 2
    /\ IsBatchComplete(events[Len(events) - 1])
    /\ IsNtfyOutcomeLog(events[Len(events)])
\* something went wrong for account a
FailedFor(a) ==
    \E i \in 1..Len(events) :
        /\ events[i].acct = a
        /\ \/ /\ events[i].e = "log" /\ events[i].level = "ERROR"
              /\ ~IsNtfyOutcomeLog(events[i])
           \/ events[i].e = "post" /\ ~events[i].ok

\* C13: once the notification endpoint is configured, every account of the
\* list is eventually taken up, once and in list order, and the run ends with
\* the batch-complete step, whatever failed for earlier accounts or for the
\* notifications.
C13_EveryAccountTakenUp ==
    /\ [](pc \notin {"start", "exited"} => <>(pc = "done"))
    /\ [][idx' \in {idx, idx + 1}]_vars
    /\ [](pc = "done" =>
            /\ \A a \in 1..NumUsers : Cardinality(TakenUpAt(a)) = 1
            /\ \A a, b \in 1..NumUsers :
                   a < b => \A i \in TakenUpAt(a), j \in TakenUpAt(b) : i < j
            /\ EndsWithBatchComplete
            /\ CountOf(events, idx, IsBatchComplete) = 1)

C13_Witness ==
    /\ pc = "done"
    /\ ntfy_failed
    /\ files["STUDENT_A"] = Corrupt
    /\ HasLog(2, "Login failed for user")
    /\ TakenUpAt(1) # {}
    /\ TakenUpAt(2) # {}
    /\ EndsWithBatchComplete

\* the loop body of account a has ended
BodyOver(a) == idx > a \/ (idx = a /\ pc \in {"pause", "finish", "done"})
\* account a got as far as main.py:361 (a non-empty extraction)
ReachedReport(a) == HasLog(a, "Found current grades for user")
\* a failure notification of the given kind for account a, sent after an
\* ERROR log line of that account (other than the outcome of a notification)
FailureTold(a, kind) ==
    \E i, j \in 1..Len(events) :
        /\ i < j
        /\ events[i].e = "log" /\ events[i].acct = a /\ events[i].level = "ERROR"
        /\ ~IsNtfyOutcomeLog(events[i])
        /\ events[j].e = "ntfy" /\ events[j].acct = a
        /\ events[j].message = Msg(kind, USER_IDENTIFIERS[a])
CredentialsSkipped(a) == HasLog(a, "username or password not found, skipping")
LoginFailed(a) ==
    \E i \in 1..Len(events) :
        events[i].e = "return" /\ events[i].acct = a /\ events[i].value = NoneTriple

\* C14: every path on which an account's processing is aborted (missing
\* credentials, failed login, failed fetch or extraction) has written an
\* ERROR log line and sent a failure notification for that account, naming
\* the kind of failure, by the time the loop body of that account ends.
C14_AbortIsLoggedAndNotified ==
    \A a \in 1..NumUsers :
        (Visible(a) /\ BodyOver(a) /\ ~ReachedReport(a)) =>
            IF CredentialsSkipped(a) THEN FailureTold(a, "credentials missing")
            ELSE IF LoginFailed(a) THEN FailureTold(a, "login failed")
            ELSE FailureTold(a, "failed to retrieve grades")

C14_Witness ==
    /\ pc = "done"
    /\ ~CredentialsSkipped(2)
    /\ ~LoginFailed(2)
    /\ ~ReachedReport(2)
    /\ HasLog(2, "No grades found after parsing")
    /\ FailureTold(2, "failed to retrieve grades")

\* positions in events of what account a did
PositionsOf(a, P(_)) == {i \in 1..Len(events) : events[i].acct = a /\ P(events[i])}
IsSave(x) == x.e = "save"
IsLoginReturn(x) == x.e = "return"
IsEntryNotification(x) ==
    x.e = "ntfy" /\ x.message.kind \in {"new grade", "grade changed"}
IsReportNotification(x) ==
    x.e = "ntfy"
    /\ x.message.kind \in {"new grade", "grade changed", "no new grades",
                           "first check"}
Before(S, T) == \A i \in S, j \in T : i < j

\* C15 (as stated): within one account's run the new snapshot is persisted
\* before any new-record or changed-record notification of that run is sent.
C15_PersistBeforeNotify ==
    \A a \in 1..NumUsers :
        \A j \in PositionsOf(a, IsEntryNotification) :
            \E i \in PositionsOf(a, IsSave) : i < j

\* C15 (amended): within one account's run the steps happen in the order
\* authenticate, fetch, extract, diff, notify, persist: the login request
\* precedes the return of login_websinu, which precedes the records request,
\* which precedes every notification of the comparison, and each of these
\* notifications is sent before the one save of the run.
C15_NotifyBeforePersist ==
    \A a \in 1..NumUsers :
        /\ Before(PositionsOf(a, IsLoginPost), PositionsOf(a, IsLoginReturn))
        /\ Before(PositionsOf(a, IsLoginReturn), PositionsOf(a, IsRecordsPost))
        /\ Before(PositionsOf(a, IsRecordsPost),
                  PositionsOf(a, IsReportNotification))
        /\ Before(PositionsOf(a, IsReportNotification), PositionsOf(a, IsSave))
        /\ Cardinality(PositionsOf(a, IsSave)) <= 1
        /\ (Visible(a) /\ PositionsOf(a, IsSave) # {})
             => /\ PositionsOf(a, IsReportNotification) # {}
                /\ PositionsOf(a, IsRecordsPost) # {}

C15_Witness ==
    /\ pc = "done"
    /\ \E j \in PositionsOf(2, IsEntryNotification), i \in PositionsOf(2, IsSave) :
           /\ j < i
           /\ events[j].message.kind = "grade changed"
           /\ events[j + 1].msg = "Failed to send Ntfy notification"
           /\ events[i].outcome = "saved"
    /\ \E j \in PositionsOf(2, IsEntryNotification) :
           /\ events[j].message.kind = "new grade"
           /\ events[j + 1].msg = "Ntfy notification sent successfully"

IsDelay(x) == x.e = "sleep" /\ x.seconds = DELAY_BETWEEN_USERS_SECONDS

\* C16: between the processing of any two consecutive accounts of the list
\* the fixed delay is performed, whatever the outcome of the earlier account
\* (success, failure, or skipped for missing credentials); no delay follows
\* the last account.
C16_DelayBetweenAccounts ==
    /\ \A a \in 1..(NumUsers - 1) :
           TakenUpAt(a + 1) # {} =>
               /\ Cardinality(PositionsOf(a, IsDelay)) = 1
               /\ Before(PositionsOf(a, IsDelay), TakenUpAt(a + 1))
               /\ Before(TakenUpAt(a), PositionsOf(a, IsDelay))
    /\ PositionsOf(NumUsers, IsDelay) = {}

\* a credential that is set and not empty
Present(s) == s \notin {NoneStr, ""}
IsFileAccess(x) == x.e \in {"load", "save"}
IsPortalOrFile(x) == IsPost(x) \/ IsFileAccess(x)

\* C17: when an account's username or password is absent, the account is
\* skipped: no snapshot is loaded or saved and no portal request is sent for
\* it, a failure notification is emitted, and the run continues with the next
\* account (or with the batch-complete step after the last one).
C17_SkippedWithoutCredentials ==
    /\ [][(pc = "user" /\ (~Present(websinu_username') \/ ~Present(websinu_password')))
            => /\ SelectSeq(NewEvents, IsPortalOrFile) = <<>>
               /\ files' = files
               /\ sessions_created' = sessions_created
               /\ \E k \in 1..Len(NewEvents) :
                      /\ NewEvents[k].e = "ntfy"
                      /\ NewEvents[k].message = Msg("credentials missing", User)
               /\ IF idx < NumUsers
                  THEN pc' = "user" /\ idx' = idx + 1
                  ELSE pc' = "finish"
         ]_vars
    /\ [](\A a \in 1..NumUsers :
            CredentialsSkipped(a) => PositionsOf(a, IsPortalOrFile) = {})

C17_Witness ==
    /\ pc = "done"
    /\ websinu_username = ""
    /\ CredentialsSkipped(2)
    /\ PositionsOf(1, IsSave) # {}
    /\ PositionsOf(2, IsPortalOrFile) = {}
    /\ FailureTold(2, "credentials missing")

(***************************************************************************)
(* Properties of the snapshots.                                            *)
(***************************************************************************)
\* what a file holds, whether or not the process may read it
Content(f) == IF f.kind = "unreadable" THEN f.holds ELSE f
\* what load_previous_grades would read from a file
Loaded(f) == IF f.kind = "json" THEN f.grades ELSE <<>>
\* the process may read f once it has been written over: a file that could
\* be read still can, a file that did not exist can if the mask of the
\* process leaves the owner the right to read
ReadableOnceWritten(f) ==
    \/ f.kind \in {"json", "corrupt"}
    \/ f.kind = "missing" /\ umask = "0022"
\* the file of the account after the step holds content, and whether the
\* process may read it
NowHolds(content) ==
    /\ Content(files'[User]) = content
    /\ files'[User].kind # "unreadable" <=> ReadableOnceWritten(files[User])
IsAnsweredRecordsPost(x) == IsRecordsPost(x) /\ x.ok
\* the loop body of the current account has ended after an extraction
ExtractionRunOver ==
    /\ idx >= 1
    /\ pc \in {"pause", "finish", "done"}
    /\ PositionsOf(idx, IsAnsweredRecordsPost) # {}

\* C18 (as stated): at the end of every account run that reached extraction
\* the persisted snapshot of the account is exactly the record sequence
\* extracted in that run.
C18_SnapshotIsExtraction ==
    ExtractionRunOver => Loaded(files[User]) = current_grades

\* C18 (amended): at the end of every account run whose extraction yielded at
\* least one record and whose save succeeded, the snapshot file holds exactly
\* the extracted sequence (replaced wholesale, nothing of the old snapshot
\* merged in), and the process can read it back unless the file could not be
\* read before or was created under a mask that denies reading; an
\* extraction of zero records leaves the snapshot untouched, and a failed
\* save is only logged, leaving the file as it was or without JSON in it.
C18_SavedSnapshotIsExtraction ==
    /\ [][pc = "report" =>
            LET sv == SelectSeq(NewEvents, IsSave) IN
            /\ Len(sv) = 1
            /\ sv[1].grades = current_grades
            /\ current_grades # <<>>
            /\ sv[1].outcome = "saved" => NowHolds(Json(current_grades))
            /\ sv[1].outcome = "open failed" => files'[User] = files[User]
            /\ sv[1].outcome = "write failed"
                 => /\ Content(files'[User]).kind # "json"
                    /\ Loaded(files'[User]) = <<>>
            /\ \A u \in Users \ {User} : files'[u] = files[u]
         ]_vars
    /\ [][pc = "get_grades" => files' = files]_vars
    /\ [](ExtractionRunOver /\ current_grades = <<>>
            => PositionsOf(idx, IsSave) = {})

C18_Witness ==
    /\ pc = "pause"
    /\ previous_grades = <<Algebra7>>
    /\ current_grades = <<Algebra9, Databases7>>
    /\ \E i \in PositionsOf(1, IsSave) : events[i].outcome = "saved"
    /\ files[User] = Json(<<Algebra9, Databases7>>)

\* C19: processing one account never reads or writes another account's
\* snapshot and never uses another account's session: every login makes a
\* fresh session, other than the one the loop still holds from the account
\* before, which all portal requests of that account use; load and save name
\* only the account being processed, and a step leaves every other account's
\* snapshot unchanged.
C19_AccountsShareNothing ==
    /\ [][\A u \in Users :
            (idx = 0 \/ u # User) => files'[u] = files[u]]_vars
    /\ [](\A i \in 1..Len(events) :
            IsFileAccess(events[i])
                => /\ events[i].acct >= 1
                   /\ events[i].user = USER_IDENTIFIERS[events[i].acct])
    /\ [](\A i, j \in 1..Len(events) :
            (IsPost(events[i]) /\ IsPost(events[j]))
                => (events[i].session = events[j].session
                        <=> events[i].acct = events[j].acct))
    /\ [][pc = "login" =>
            /\ sessions_created' = sessions_created + 1
            /\ session'.id > sessions_created
            /\ websinu_session # NoneObj => session'.id # websinu_session.id
            /\ \A k \in 1..Len(NewEvents) :
                   IsPost(NewEvents[k]) => NewEvents[k].session = session'.id
         ]_vars
    /\ [](\A i \in 1..Len(events) :
            (IsPost(events[i]) /\ events[i].acct = idx /\ session # NoneObj)
                => events[i].session = session.id)

C19_Witness ==
    /\ pc = "done"
    /\ sessions_created = 2
    /\ websinu_session # NoneObj
    /\ websinu_session.id = 2
    /\ \E j \in PositionsOf(2, IsRecordsPost) : events[j].session = 2
    /\ \E i \in PositionsOf(1, IsSave) : events[i].grades = <<Algebra7>>
    /\ \E j \in PositionsOf(2, IsSave) : events[j].outcome = "saved"
    /\ files["STUDENT_A"] = Json(<<Algebra7>>)
    /\ files["STUDENT_B"] = Json(<<Algebra9, Databases7>>)

\* the steps of C20 that both readings share: a snapshot changes only in the
\* save step of the account, which is reached only after a login that
\* succeeded and an answered records request with a non-empty extraction, and
\* save is called only with a non-empty record sequence
SnapshotChangesOnlyInSave ==
    /\ [][files' # files =>
            /\ pc = "report"
            /\ \E k \in 1..Len(NewEvents) :
                   IsSave(NewEvents[k]) /\ NewEvents[k].grades = current_grades
         ]_vars
    /\ [](pc = "report" =>
            /\ current_grades # <<>>
            /\ ~CredentialsSkipped(idx)
            /\ ~LoginFailed(idx)
            /\ PositionsOf(idx, IsAnsweredRecordsPost) # {}
            /\ ~HasLog(idx, "No grades found after parsing"))
    /\ [](\A i \in 1..Len(events) : IsSave(events[i]) => events[i].grades # <<>>)

\* C20 (as stated): an account's snapshot is left unchanged by any run in
\* which its credentials are missing, the login fails, the fetch fails or the
\* extraction yields no record; save is called only with a non-empty record
\* sequence, so no step replaces a snapshot that holds records by one that
\* loads as empty.
C20_SnapshotNeverEmptied ==
    /\ SnapshotChangesOnlyInSave
    /\ [][\A u \in Users :
            Loaded(files[u]) # <<>> => Loaded(files'[u]) # <<>>]_vars

\* C20 (amended): an account's snapshot is left unchanged by any run in which
\* its credentials are missing, the login fails, the fetch fails or the
\* extraction yields no record; save is called only with a non-empty record
\* sequence, so a save that succeeds never writes an empty snapshot, and a
\* snapshot that holds records comes to load as empty in one way only: a save
\* of the account whose write fails after open(..., 'w') has truncated the
\* file.
C20_FailedRunKeepsSnapshot ==
    /\ SnapshotChangesOnlyInSave
    /\ [][pc = "report" =>
            LET sv == SelectSeq(NewEvents, IsSave) IN
            /\ Len(sv) = 1
            /\ sv[1].outcome = "saved"
                 => /\ Content(files'[User]) = Json(current_grades)
                    /\ Loaded(files[User]) # <<>>
                         => Loaded(files'[User]) = current_grades
            /\ sv[1].outcome = "open failed" => files'[User] = files[User]
            /\ sv[1].outcome = "write failed" => Loaded(files'[User]) = <<>>
         ]_vars
    /\ [][\A u \in Users :
            (Loaded(files[u]) # <<>> /\ Loaded(files'[u]) = <<>>)
                => /\ pc = "report"
                   /\ u = User
                   /\ \E k \in 1..Len(NewEvents) :
                          /\ IsSave(NewEvents[k])
                          /\ NewEvents[k].outcome = "write failed"
                   /\ \E k \in 1..Len(NewEvents) :
                          /\ NewEvents[k].e = "log"
                          /\ NewEvents[k].level = "ERROR"
                          /\ NewEvents[k].msg = "Error saving current grades"
         ]_vars

C20_Witness ==
    /\ pc = "done"
    /\ files["STUDENT_A"] = Unreadable(Json(<<Algebra7>>))
    /\ PositionsOf(1, IsSave) = {}
    /\ files["STUDENT_B"] = Json(<<Algebra7>>)
    /\ PositionsOf(2, IsAnsweredRecordsPost) # {}
    /\ HasLog(2, "No grades found after parsing")
    /\ PositionsOf(2, IsSave) = {}

(***************************************************************************)
(* Properties of the first run and of consecutive runs.                    *)
(***************************************************************************)
IsNotification(x) == x.e = "ntfy"
IsFirstCheck(x) == x.e = "ntfy" /\ x.message.kind = "first check"
IsNoNewGrades(x) == x.e = "ntfy" /\ x.message.kind = "no new grades"

\* the first-run branch of C21 up to the save: the snapshot loaded is what
\* the file gives, compare_grades is not called, the one notification is the
\* 'first check' summary with the number of records found, and
\* save_current_grades is called once, with the extraction result
FirstRunSummaryThenSave ==
    /\ [](pc = "report" =>
            /\ previous_grades = Loaded(files[User])
            /\ current_grades # <<>>)
    /\ [][(pc = "report" /\ previous_grades = <<>>) =>
            LET told == SelectSeq(NewEvents, IsNotification)
                sv == SelectSeq(NewEvents, IsSave)
            IN  /\ new_entries' = new_entries
                /\ changed_entries' = changed_entries
                /\ Len(told) = 1
                /\ IsFirstCheck(told[1])
                /\ told[1].message.user = User
                /\ told[1].message.found = Len(current_grades)
                /\ Len(sv) = 1
                /\ sv[1].user = User
                /\ sv[1].grades = current_grades
         ]_vars

\* C21 (as stated): when the loaded snapshot is empty (no file, or a file
\* that cannot be read or decoded) and the extraction yields records,
\* compare_grades is not called and no per-record notification is sent;
\* exactly one notification, the 'first check' summary, is sent and the
\* extraction result is saved as the snapshot: the next load gives it.
C21_FirstRunSavesSnapshot ==
    /\ FirstRunSummaryThenSave
    /\ [][(pc = "report" /\ previous_grades = <<>>)
            => Loaded(files'[User]) = current_grades]_vars

\* C21 (amended): when the loaded snapshot is empty (no file, or a file that
\* cannot be read or decoded) and the extraction yields records,
\* compare_grades is not called and no per-record notification is sent;
\* exactly one notification, the 'first check' summary with the number of
\* records found, is sent, and then save_current_grades is called once with
\* the extraction result.  When that save succeeds the file holds the
\* extraction, and the next load gives it unless the file could not be read
\* before or was created under a mask that denies reading; when the save
\* fails the file is left as it was or without JSON in it, and the next run
\* is a first run again.
C21_FirstRunOnlySummary ==
    /\ FirstRunSummaryThenSave
    /\ [][(pc = "report" /\ previous_grades = <<>>) =>
            LET sv == SelectSeq(NewEvents, IsSave) IN
            /\ sv[1].outcome = "saved"
                 => /\ NowHolds(Json(current_grades))
                    /\ ReadableOnceWritten(files[User])
                         <=> Loaded(files'[User]) = current_grades
            /\ sv[1].outcome = "open failed"
                 => files'[User] = files[User] /\ Loaded(files'[User]) = <<>>
            /\ sv[1].outcome = "write failed"
                 => NowHolds(Corrupt) /\ Loaded(files'[User]) = <<>>
         ]_vars

C21_Witness ==
    /\ pc = "done"
    /\ HasLog(2, "An error occurred loading previous grades")
    /\ CountOf(events, 2, IsFirstCheck) = 1
    /\ CountOf(events, 2, IsEntryNotification) = 0
    /\ CountOf(events, 2, IsNotification) = 3
    /\ new_entries = <<>>
    /\ \E i \in PositionsOf(2, IsSave) : events[i].outcome = "saved"
    /\ files["STUDENT_B"] = Unreadable(Json(<<Algebra9, Databases7>>))

\* the records of s have pairwise distinct identity keys
DistinctKeys(s) ==
    \A i, j \in 1..Len(s) : i # j => IdentityKey(s[i]) # IdentityKey(s[j])
\* what the earlier run saved without error for the account of the loop
SavedByEarlierRun == events[1].saved[idx]

\* C22 (as stated): if a run saved an account's snapshot without error and
\* the next run extracts the same record sequence for that account, with
\* pairwise distinct identity keys, the second run sends no new-record and no
\* changed-record notification for the account but the one 'no new grades'
\* notification: what the first run announced is not announced again.
C22_SameExtractionNotAnnouncedAgain ==
    [][(/\ pc = "report"
        /\ InSecondRun
        /\ SavedByEarlierRun = current_grades
        /\ DistinctKeys(current_grades))
        => LET told == SelectSeq(NewEvents, IsNotification) IN
           /\ previous_grades = current_grades
           /\ Len(told) = 1
           /\ IsNoNewGrades(told[1])
           /\ told[1].message.user = User
           /\ SelectSeq(NewEvents, IsEntryNotification) = <<>>
           /\ new_entries' = <<>>
           /\ changed_entries' = <<>>
      ]_vars

\* C22 (amended): if a run saved an account's snapshot without error and
\* the next run extracts the same record sequence for that account, with
\* pairwise distinct identity keys, the second run sends no new-record and no
\* changed-record notification for the account; it sends one notification:
\* 'no new grades' when it reads the snapshot back, and the 'first check'
\* summary when the process may write the snapshot file but not read it (the
\* file had no read permission, or the first run created it under a mask that
\* denies reading), so that the load fails and the snapshot counts as empty.
C22_SameExtractionNoEntryAnnounced ==
    [][(/\ pc = "report"
        /\ InSecondRun
        /\ SavedByEarlierRun = current_grades
        /\ DistinctKeys(current_grades))
        => LET told == SelectSeq(NewEvents, IsNotification) IN
           /\ Content(files[User]) = Json(current_grades)
           /\ Len(told) = 1
           /\ told[1].message.user = User
           /\ SelectSeq(NewEvents, IsEntryNotification) = <<>>
           /\ IF files[User].kind = "json"
              THEN /\ previous_grades = current_grades
                   /\ IsNoNewGrades(told[1])
                   /\ new_entries' = <<>>
                   /\ changed_entries' = <<>>
              ELSE /\ files[User].kind = "unreadable"
                   /\ previous_grades = <<>>
                   /\ HasLog(idx, "An error occurred loading previous grades")
                   /\ IsFirstCheck(told[1])
      ]_vars

C22_Witness ==
    /\ pc = "pause"
    /\ idx = 1
    /\ InSecondRun
    /\ events[1].saved[1] = <<Algebra9, Databases7>>
    /\ current_grades = <<Algebra9, Databases7>>
    /\ CountOf(events, 1, IsNoNewGrades) = 1
    /\ CountOf(events, 1, IsEntryNotification) = 0
    /\ CountOf(events, 1, IsFirstCheck) = 0

====
